---------------------------- MODULE Spec2Model ----------------------------
(***************************************************************************)
(* A model of bicimad/bicimad.py: the URL catalog (class UrlEMT) and the   *)
(* trip dataset (class BiciMad).                                           *)
(*                                                                         *)
(* Text is modelled character by character: a Python str is a sequence of  *)
(* one-character strings.  A table cell is a sequence: <<>> is the missing *)
(* value (NaN / NaT), <<v>> holds the value v.                             *)
(*                                                                         *)
(* The client creates one object (a UrlEMT or a BiciMad) and then calls    *)
(* its methods in any order.  Every call is one action; what the call did  *)
(* to the outside world is recorded in trace, its outcome in last.         *)
(***************************************************************************)
EXTENDS Integers, Sequences, FiniteSets

VARIABLES
    catalog,    \* <<>>: no UrlEMT instance; <<[enlaces_validos |-> set of URLs]>>
    bici,       \* <<>>: no BiciMad instance; <<[month, year, data]>>
    last,       \* outcome of the last call: [op, month, year, kind, value, msg]
    trace,      \* what the last call did: HTTP GETs, link extraction, ZIP access
    parsed,     \* the table get_data returned to BiciMad.__init__ (before clean)
    born        \* the table of the BiciMad instance when __init__ returned

vars == <<catalog, bici, last, trace, parsed, born>>

----------------------------------------------------------------------------
(* Bounds of the model *)

\* most download anchors on one index page
MaxAnchors == 2

\* most rows of a file whose fields are varied
MaxRows == 2

\* most trips of a file whose stations are varied
MaxTrips == 4

----------------------------------------------------------------------------
(* Text *)

Range(s) == {s[i] : i \in 1..Len(s)}

Digits == <<"0","1","2","3","4","5","6","7","8","9">>

IsDigit(c) == c \in Range(Digits)

Lower == {"a","b","c","d","e","f","g","h","i","j","k","l","m",
          "n","o","p","q","r","s","t","u","v","w","x","y","z"}

Upper == {"A","B","C","D","E","F","G","H","I","J","K","L","M",
          "N","O","P","Q","R","S","T","U","V","W","X","Y","Z"}

\* [a-zA-Z]
IsLetter(c) == c \in Lower \cup Upper

\* s[i:i+len(lit)] == lit
StartsWithAt(s, i, lit) ==
    /\ i >= 1
    /\ i + Len(lit) - 1 <= Len(s)
    /\ \A k \in 1..Len(lit) : s[i + k - 1] = lit[k]

\* Python's  sub in s
Contains(s, sub) == \E i \in 1..(Len(s) - Len(sub) + 1) : StartsWithAt(s, i, sub)

\* Python's  s.endswith(suffix)
EndsWith(s, suffix) ==
    /\ Len(suffix) <= Len(s)
    /\ StartsWithAt(s, Len(s) - Len(suffix) + 1, suffix)

RECURSIVE Str(_)
\* str(n) / f"{n}" of an integer
Str(n) ==
    IF n < 0 THEN <<"-">> \o Str(-n)
    ELSE IF n < 10 THEN <<Digits[n + 1]>>
    ELSE Str(n \div 10) \o <<Digits[(n % 10) + 1]>>

\* f"{n:02}": zero-padded to width 2 (the sign counts for the width)
Fmt02(n) == IF Len(Str(n)) >= 2 THEN Str(n)
            ELSE IF n < 0 THEN <<"-">> \o Str(-n)
            ELSE <<"0">> \o Str(n)

----------------------------------------------------------------------------
(* UrlEMT: constants *)

EMT == <<"h","t","t","p","s",":","/","/","o","p","e","n","d","a","t","a",".",
         "e","m","t","m","a","d","r","i","d",".","e","s","/">>

GENERAL == <<"/","D","a","t","o","s","-","e","s","t","a","t","i","c","o","s","/",
             "D","a","t","o","s","-","g","e","n","e","r","a","l","e","s","-",
             "(","1",")">>

\* the literal segments of the pattern of get_links
PatGetattachment == <<"g","e","t","a","t","t","a","c","h","m","e","n","t","/">>

PatTrips == <<"t","r","i","p","s","_">>

PatCsvAspx == <<"-","c","s","v",".","a","s","p","x">>

\* urljoin(base, path) for a path that starts with "/": the origin of base
\* (scheme://host, up to the third "/") followed by path
urljoin(base, path) ==
    LET slashes == {i \in 1..Len(base) : base[i] = "/"}
        third   == CHOOSE i \in slashes : Cardinality({j \in slashes : j < i}) = 2
    IN  IF Len(path) > 0 /\ path[1] = "/"
        THEN SubSeq(base, 1, third - 1) \o path
        ELSE base \o path

----------------------------------------------------------------------------
(* UrlEMT.get_links:                                                       *)
(*   re.findall(r'(getattachment/.*?trips_\d{2}_\d{2}_[a-zA-Z]+-csv\.aspx)') *)

RECURSIVE LettersEnd(_, _)
\* the first position at or after k that holds no letter
LettersEnd(s, k) ==
    IF k <= Len(s) /\ IsLetter(s[k]) THEN LettersEnd(s, k + 1) ELSE k

\* trips_\d{2}_\d{2}_[a-zA-Z]+-csv\.aspx  matched at position j: the position
\* after the match, or 0.  [a-zA-Z]+ is greedy, and since "-" is no letter
\* the only run that can be followed by -csv.aspx is the whole run of letters.
TailEnd(s, j) ==
    LET e == LettersEnd(s, j + 12)
    IN  IF /\ StartsWithAt(s, j, PatTrips)
           /\ j + 11 <= Len(s)
           /\ IsDigit(s[j + 6]) /\ IsDigit(s[j + 7])
           /\ s[j + 8] = "_"
           /\ IsDigit(s[j + 9]) /\ IsDigit(s[j + 10])
           /\ s[j + 11] = "_"
           /\ e > j + 12
           /\ StartsWithAt(s, e, PatCsvAspx)
        THEN e + Len(PatCsvAspx)
        ELSE 0

\* the whole pattern matched at position i: the position after the match, or
\* 0.  ".*?" is lazy: it takes the fewest characters (none of them a newline)
\* after which the rest of the pattern matches.
MatchAt(s, i) ==
    LET from == i + Len(PatGetattachment)
        ok   == {j \in from..Len(s) :
                    /\ TailEnd(s, j) # 0
                    /\ \A k \in from..(j - 1) : s[k] # "\n"}
    IN  IF StartsWithAt(s, i, PatGetattachment) /\ ok # {}
        THEN TailEnd(s, CHOOSE j \in ok : \A j2 \in ok : j <= j2)
        ELSE 0

RECURSIVE FindAll(_, _)
\* re.findall: the leftmost match, then on from its end
FindAll(s, i) ==
    IF i > Len(s) THEN <<>>
    ELSE LET e == MatchAt(s, i)
         IN  IF e # 0 THEN <<SubSeq(s, i, e - 1)>> \o FindAll(s, e)
             ELSE FindAll(s, i + 1)

get_links(html) == {EMT \o link : link \in Range(FindAll(html, 1))}

----------------------------------------------------------------------------
(* UrlEMT.get_name_csv *)

month_name_mapping ==
    <<  <<"J","a","n","u","a","r","y">>,
        <<"F","e","b","r","u","a","r","y">>,
        <<"M","a","r","c","h">>,
        <<"A","p","r","i","l">>,
        <<"M","a","y">>,
        <<"J","u","n","e">>,
        <<"J","u","l","y">>,
        <<"A","u","g","u","s","t">>,
        <<"S","e","p","t","e","m","b","e","r">>,
        <<"O","c","t","o","b","e","r">>,
        <<"N","o","v","e","m","b","e","r">>,
        <<"D","e","c","e","m","b","e","r">> >>

\* f"trips_{year}_{month:02}_{month_name}.csv"  (month in 1..12)
get_name_csv(month, year) ==
    PatTrips \o Str(year) \o <<"_">> \o Fmt02(month) \o <<"_">>
             \o month_name_mapping[month] \o <<".","c","s","v">>

----------------------------------------------------------------------------
(* UrlEMT.get_url *)

\* f"{year}_{month:02}"
search_str(month, year) == Str(year) \o <<"_">> \o Fmt02(month)

ValidMonth(month) == 1 <= month /\ month <= 12

ValidYear(year) == year \in {21, 22, 23}

MsgMonth == <<"El mes debe ser un numero entre 1 y 12.">>

MsgYear == <<"El ano debe ser 21, 22 o 23.">>

MsgNoLink(month, year) ==
    <<"No existe un enlace valido para el mes ", Str(month), " del ano ", Str(year)>>

MsgConnection(url, status) ==
    <<"Failed to connect to ", url, ", status code: ", Str(status)>>

\* get_url without the check of the year
get_url_any_year(enlaces_validos, month, year) ==
    IF ~ValidMonth(month)
    THEN {[kind |-> "ValueError", value |-> <<>>, msg |-> MsgMonth]}
    ELSE LET found == {url \in enlaces_validos : Contains(url, search_str(month, year))}
         IN  IF found # {}
             THEN {[kind |-> "return", value |-> url, msg |-> <<>>] : url \in found}
             ELSE {[kind |-> "ValueError", value |-> <<>>, msg |-> MsgNoLink(month, year)]}

\* get_url searching f"{year}_{month}", the month not padded
get_url_unpadded(enlaces_validos, month, year) ==
    IF ~ValidMonth(month)
    THEN {[kind |-> "ValueError", value |-> <<>>, msg |-> MsgMonth]}
    ELSE IF ~ValidYear(year)
    THEN {[kind |-> "ValueError", value |-> <<>>, msg |-> MsgYear]}
    ELSE LET found == {url \in enlaces_validos :
                        Contains(url, Str(year) \o <<"_">> \o Str(month))}
         IN  IF found # {}
             THEN {[kind |-> "return", value |-> url, msg |-> <<>>] : url \in found}
             ELSE {[kind |-> "ValueError", value |-> <<>>, msg |-> MsgNoLink(month, year)]}

\* The outcomes get_url can have.  enlaces_validos is a set: the loop visits
\* it in an order the program does not control, so the first match found can
\* be any stored URL that contains the search string.
get_url(enlaces_validos, month, year) ==
    IF ~ValidMonth(month)
    THEN {[kind |-> "ValueError", value |-> <<>>, msg |-> MsgMonth]}
    ELSE IF ~ValidYear(year)
    THEN {[kind |-> "ValueError", value |-> <<>>, msg |-> MsgYear]}
    ELSE LET found == {url \in enlaces_validos : Contains(url, search_str(month, year))}
         IN  IF found # {}
             THEN {[kind |-> "return", value |-> url, msg |-> <<>>] : url \in found}
             ELSE {[kind |-> "ValueError", value |-> <<>>, msg |-> MsgNoLink(month, year)]}

----------------------------------------------------------------------------
(* Events of a call *)

EvGet(url, status) == [ev |-> "GET", url |-> url, status |-> status, name |-> <<>>]

EvLinks == [ev |-> "get_links", url |-> <<>>, status |-> 0, name |-> <<>>]

EvZip == [ev |-> "ZipFile", url |-> <<>>, status |-> 0, name |-> <<>>]

EvOpen(name) == [ev |-> "open", url |-> <<>>, status |-> 0, name |-> name]

\* the GETs of a trace
Gets(tr) == SelectSeq(tr, LAMBDA e : e.ev = "GET")

----------------------------------------------------------------------------
(* UrlEMT.select_valid_urls, given the answer (status, html) to its GET *)

\* select_valid_urls asking a second time after a status other than 200
select_valid_urls_retry(status, html) ==
    LET url == urljoin(EMT, GENERAL)
    IN  IF status # 200
        THEN [kind |-> "ConnectionError", links |-> {},
              msg |-> MsgConnection(url, status),
              trace |-> <<EvGet(url, status), EvGet(url, status)>>]
        ELSE [kind |-> "return", links |-> get_links(html), msg |-> <<>>,
              trace |-> <<EvGet(url, status), EvLinks>>]

select_valid_urls(status, html) ==
    LET url == urljoin(EMT, GENERAL)
    IN  IF status # 200
        THEN [kind |-> "ConnectionError", links |-> {},
              msg |-> MsgConnection(url, status),
              trace |-> <<EvGet(url, status)>>]
        ELSE [kind |-> "return", links |-> get_links(html), msg |-> <<>>,
              trace |-> <<EvGet(url, status), EvLinks>>]

----------------------------------------------------------------------------
(* UrlEMT.get_csv, given the answer (status, body) to its GET.  A body is  *)
(* [zip |-> whether the bytes are a ZIP archive, name |-> the name of the  *)
(* archive's entry, csv |-> the rows of the entry's text].                 *)

\* get_csv after get_url: opening the answer as an archive whatever its status
download_unchecked(url, month, year, status, body) ==
    IF ~body.zip
    THEN [kind |-> "BadZipFile", value |-> <<>>, msg |-> <<>>,
          trace |-> <<EvGet(url, status), EvZip>>]
    ELSE IF body.name # get_name_csv(month, year)
    THEN [kind |-> "KeyError", value |-> <<>>, msg |-> <<>>,
          trace |-> <<EvGet(url, status), EvZip, EvOpen(get_name_csv(month, year))>>]
    ELSE [kind |-> "return", value |-> body.csv, msg |-> <<>>,
          trace |-> <<EvGet(url, status), EvZip, EvOpen(get_name_csv(month, year))>>]

\* get_csv after get_url returned url: the GET, the archive, its entry
download(url, month, year, status, body) ==
    IF status # 200
    THEN [kind |-> "ConnectionError", value |-> <<>>,
          msg |-> MsgConnection(url, status),
          trace |-> <<EvGet(url, status)>>]
    ELSE IF ~body.zip
    THEN [kind |-> "BadZipFile", value |-> <<>>, msg |-> <<>>,
          trace |-> <<EvGet(url, status), EvZip>>]
    ELSE IF body.name # get_name_csv(month, year)
    THEN [kind |-> "KeyError", value |-> <<>>, msg |-> <<>>,
          trace |-> <<EvGet(url, status), EvZip, EvOpen(get_name_csv(month, year))>>]
    ELSE [kind |-> "return", value |-> body.csv, msg |-> <<>>,
          trace |-> <<EvGet(url, status), EvZip, EvOpen(get_name_csv(month, year))>>]

\* get_csv requesting the index page before get_url is looked at
get_csv_fetch_first(r, month, year, status, body) ==
    IF r.kind # "return"
    THEN [kind |-> r.kind, value |-> <<>>, msg |-> r.msg,
          trace |-> <<EvGet(urljoin(EMT, GENERAL), status)>>]
    ELSE download(r.value, month, year, status, body)

\* get_csv, for one outcome r of its call of get_url: an exception of get_url
\* goes on to the caller
get_csv(r, month, year, status, body) ==
    IF r.kind # "return"
    THEN [kind |-> r.kind, value |-> <<>>, msg |-> r.msg, trace |-> <<>>]
    ELSE download(r.value, month, year, status, body)

----------------------------------------------------------------------------
(* Tables.  A data frame is [columns |-> the column names in order,        *)
(* rows |-> the rows in order]; a row is [fecha |-> the row key (index),   *)
(* cells |-> column name -> cell].  A text or identifier value is          *)
(* [kind, text, frac]: an int (text: its digits), a float (text: its whole *)
(* part, frac: its fraction digits, <<>> for .0) or a str (text).  A       *)
(* trip_minutes value is a number; a timestamp is [day |-> proleptic       *)
(* ordinal of the date, sec |-> second of the day].                        *)

NaN == <<>>

IsNaN(cell) == Len(cell) = 0

IntVal(text) == <<[kind |-> "int", text |-> text, frac |-> <<>>]>>

FloatVal(text, frac) == <<[kind |-> "float", text |-> text, frac |-> frac]>>

StrVal(text) == <<[kind |-> "str", text |-> text, frac |-> <<>>]>>

Stamp(day, sec) == <<[day |-> day, sec |-> sec]>>

\* the column selection of csv_to_df
Columns15 ==
    <<"idBike", "fleet", "trip_minutes", "geolocation_unlock", "address_unlock",
      "unlock_date", "locktype", "unlocktype", "geolocation_lock", "address_lock",
      "lock_date", "station_unlock", "unlock_station_name", "station_lock",
      "lock_station_name">>

\* the columns of the published file besides the row key fecha
RawColumns == Range(Columns15) \cup {"dock_unlock", "dock_lock"}

\* the columns whose fields are integer-like identifiers in the file
IdLike == {"idBike", "fleet", "station_unlock", "station_lock", "dock_unlock", "dock_lock"}

\* fields read_csv takes for missing (some of its default na_values)
na_values == {<<>>, <<"N","A">>, <<"n","a","n">>, <<"n","u","l","l">>}

IsIntText(t) == Len(t) > 0 /\ \A i \in 1..Len(t) : IsDigit(t[i])

\* digits with one decimal point
IsFloatText(t) ==
    /\ Len(t) > 1
    /\ \E k \in 1..Len(t) : t[k] = "." /\ \A i \in (1..Len(t)) \ {k} : IsDigit(t[i])

RECURSIVE StripLeft(_)
\* without leading zeros (the last digit stays)
StripLeft(t) == IF Len(t) > 1 /\ t[1] = "0" THEN StripLeft(Tail(t)) ELSE t

RECURSIVE StripRight(_)
\* without trailing zeros
StripRight(t) ==
    IF Len(t) > 0 /\ t[Len(t)] = "0" THEN StripRight(SubSeq(t, 1, Len(t) - 1)) ELSE t

\* float(t) of a numeric field
FloatOf(t) ==
    IF IsIntText(t) THEN FloatVal(StripLeft(t), <<>>)
    ELSE LET k == CHOOSE k \in 1..Len(t) : t[k] = "."
         IN  FloatVal(IF k = 1 THEN <<"0">> ELSE StripLeft(SubSeq(t, 1, k - 1)),
                      StripRight(SubSeq(t, k + 1, Len(t))))

\* the dtype read_csv infers for a column from its fields: int64 when all are
\* integers, float64 when all are numbers or missing, else object
dtype(fields) ==
    LET given == {t \in fields : t \notin na_values}
    IN  IF given = fields /\ fields # {} /\ \A t \in given : IsIntText(t) THEN "int"
        ELSE IF \A t \in given : IsIntText(t) \/ IsFloatText(t) THEN "float"
        ELSE "str"

\* the cell read_csv makes of field t in a column of that dtype
Parse(dt, t) ==
    IF t \in na_values THEN NaN
    ELSE IF dt = "int" THEN IntVal(StripLeft(t))
    ELSE IF dt = "float" THEN FloatOf(t)
    ELSE StrVal(t)

\* pd.read_csv(...) of BiciMad.csv_to_df.  A file row is [fecha, cells]: the
\* fields of the identifier columns are the file's text, from which read_csv
\* infers the column type; date and other fields are taken as parsed.
read_csv(csv) ==
    LET column(c) == {csv[i].cells[c] : i \in 1..Len(csv)}
        dt        == [c \in IdLike |-> dtype(column(c))]
    IN  [i \in 1..Len(csv) |->
            [fecha |-> csv[i].fecha,
             cells |-> [c \in RawColumns |->
                          IF c \in IdLike THEN Parse(dt[c], csv[i].cells[c])
                          ELSE csv[i].cells[c]]]]

\* BiciMad.csv_to_df: fecha is the index, the 15 selected columns are kept
csv_to_df(csv) ==
    LET df == read_csv(csv)
    IN  [columns |-> Columns15,
         rows    |-> [i \in 1..Len(csv) |->
                        [fecha |-> df[i].fecha,
                         cells |-> [c \in Range(Columns15) |-> df[i].cells[c]]]]]

----------------------------------------------------------------------------
(* BiciMad.clean *)

\* str(x) of a cell's value
PyStr(cell) ==
    IF IsNaN(cell) THEN <<"n","a","n">>
    ELSE IF cell[1].kind = "float"
    THEN cell[1].text \o <<".">> \o (IF cell[1].frac = <<>> THEN <<"0">> ELSE cell[1].frac)
    ELSE cell[1].text

RECURSIVE ReplaceFrom(_, _, _, _)
\* str.replace(old, new) from position i on: every occurrence, left to right
ReplaceFrom(s, i, old, new) ==
    IF i > Len(s) THEN <<>>
    ELSE IF StartsWithAt(s, i, old) THEN new \o ReplaceFrom(s, i + Len(old), old, new)
    ELSE <<s[i]>> \o ReplaceFrom(s, i + 1, old, new)

\* .map(str).str.replace('.0', '', regex=False)  on one cell
CleanCell(cell) == StrVal(ReplaceFrom(PyStr(cell), 1, <<".","0">>, <<>>))

col_names == <<"fleet", "idBike", "station_lock", "station_unlock">>

\* dropna(how='all'): a row goes when every column of the frame is missing
AllNaN(df, row) == \A c \in Range(df.columns) : IsNaN(row.cells[c])

\* dropna(how='any')
dropna_any(df) ==
    [df EXCEPT !.rows =
        SelectSeq(df.rows, LAMBDA r : \A c \in Range(df.columns) : ~IsNaN(r.cells[c]))]

dropna(df) == [df EXCEPT !.rows = SelectSeq(df.rows, LAMBDA r : ~AllNaN(df, r))]

\* Whether clean can raise.  When dropna leaves no row of a file that had
\* rows, the identifier columns are empty columns of a numeric dtype: newer
\* pandas returns them unchanged from .map(str) and the .str accessor then
\* raises AttributeError, older pandas makes an empty column of strings.
clean_raises(df0) ==
    IF Len(df0.rows) > 0 /\ Len(dropna(df0).rows) = 0 THEN {TRUE, FALSE} ELSE {FALSE}

clean(df0) ==
    LET df == dropna(df0)
        ids == Range(col_names) \cap Range(df.columns)
    IN  [df EXCEPT !.rows =
            [i \in 1..Len(df.rows) |->
                [df.rows[i] EXCEPT !.cells =
                    [c \in DOMAIN df.rows[i].cells |->
                        IF c \in ids THEN CleanCell(df.rows[i].cells[c])
                        ELSE df.rows[i].cells[c]]]]]

----------------------------------------------------------------------------
(* BiciMad: aggregations *)

RowSet(df) == 1..Len(df.rows)

Max(S) == CHOOSE x \in S : \A y \in S : y <= x

RECURSIVE SumMinutes(_, _)
\* ["trip_minutes"].sum() over the rows numbered in I: missing values are skipped
SumMinutes(df, I) ==
    IF I = {} THEN 0
    ELSE LET i == CHOOSE x \in I : TRUE
             m == df.rows[i].cells["trip_minutes"]
         IN  (IF IsNaN(m) THEN 0 ELSE m[1]) + SumMinutes(df, I \ {i})

\* minutes / 60, kept as a fraction
Hours(minutes) == [num |-> minutes, den |-> 60]

\* groupby(key): the groups of the rows whose key is not missing
GroupKeys(df, key(_)) == {key(df.rows[i]) : i \in {j \in RowSet(df) : ~IsNaN(key(df.rows[j]))}}

GroupRows(df, key(_), k) == {i \in RowSet(df) : key(df.rows[i]) = k}

station_unlock(row) == row.cells["station_unlock"]

\* get_most_popular_stations keeping one of the stations tied at the maximum
get_most_popular_stations_one(df) ==
    LET stations == GroupKeys(df, station_unlock)
        count(s) == Cardinality(GroupRows(df, station_unlock, s))
        top      == CHOOSE s \in stations : \A t \in stations : count(t) <= count(s)
    IN  IF stations = {} THEN {}
        ELSE {df.rows[i].cells["address_unlock"] :
                i \in {j \in RowSet(df) : station_unlock(df.rows[j]) = top}}

get_most_popular_stations(df) ==
    LET stations     == GroupKeys(df, station_unlock)
        count(s)     == Cardinality(GroupRows(df, station_unlock, s))
        top_stations == IF stations = {} THEN {}
                        ELSE {s \in stations :
                                count(s) = Max({count(t) : t \in stations})}
        filtered     == {i \in RowSet(df) : station_unlock(df.rows[i]) \in top_stations}
    IN  {df.rows[i].cells["address_unlock"] : i \in filtered}

get_uses_from_most_populars(df) ==
    LET top_adresses == get_most_popular_stations(df)
    IN  Cardinality({i \in RowSet(df) :
                        df.rows[i].cells["address_unlock"] \in top_adresses})

resume(month, year, df) ==
    [year                   |-> year,
     month                  |-> month,
     total_uses             |-> Len(df.rows),
     total_time             |-> Hours(SumMinutes(df, RowSet(df))),
     most_popular_station   |-> get_most_popular_stations(df),
     uses_from_most_popular |-> get_uses_from_most_populars(df)]

\* the row key as it is: date and time of day
fecha(row) == row.fecha

\* data.index.date / pd.Grouper(freq='D'): the calendar day of the row key
fecha_date(row) == IF IsNaN(row.fecha) THEN NaN ELSE <<row.fecha[1].day>>

\* groupby(data.index)['trip_minutes'].sum() / 60
day_time(df) ==
    [k \in GroupKeys(df, fecha) |-> Hours(SumMinutes(df, GroupRows(df, fecha, k)))]

\* total_usage_day counting the distinct bikes of a day instead of its rows
total_usage_day_bikes(df) ==
    [k \in GroupKeys(df, fecha_date) |->
        Cardinality({df.rows[i].cells["idBike"] : i \in GroupRows(df, fecha_date, k)})]

\* groupby(data.index.date)["idBike"].size()
total_usage_day(df) ==
    [k \in GroupKeys(df, fecha_date) |-> Cardinality(GroupRows(df, fecha_date, k))]

\* groupby([pd.Grouper(freq='D'), 'station_unlock']).size(): one row for every
\* (day, station) that occurs
total_usage_day_station_unlock(df) ==
    LET keyed == {i \in RowSet(df) :
                    ~IsNaN(df.rows[i].fecha) /\ ~IsNaN(station_unlock(df.rows[i]))}
        pairs == {<<fecha_date(df.rows[i]), station_unlock(df.rows[i])>> : i \in keyed}
    IN  {[fecha |-> p[1], station_unlock |-> p[2],
          count |-> Cardinality({i \in keyed :
                        /\ fecha_date(df.rows[i]) = p[1]
                        /\ station_unlock(df.rows[i]) = p[2]})] : p \in pairs}

DayNames == <<"Monday", "Tuesday", "Wednesday", "Thursday", "Friday", "Saturday", "Sunday">>

\* DatetimeIndex.day_name(): ordinal 1 (0001-01-01) is a Monday
day_name(stamp) == DayNames[((stamp[1].day + 6) % 7) + 1]

mapping ==
    [n \in Range(DayNames) |->
        CASE n = "Monday" -> "L" [] n = "Tuesday" -> "M" [] n = "Wednesday" -> "X"
          [] n = "Thursday" -> "J" [] n = "Friday" -> "V" [] n = "Saturday" -> "S"
          [] n = "Sunday" -> "D"]

\* mapping[day_name] raises KeyError for a missing row key (day_name is NaN)
weekday_raises(df) == \E i \in RowSet(df) : IsNaN(df.rows[i].fecha)

\* with_dia that also uses up the durations it has summed
with_dia_consuming(df) ==
    [columns |-> IF "dia" \in Range(df.columns) THEN df.columns
                 ELSE Append(df.columns, "dia"),
     rows    |-> [i \in 1..Len(df.rows) |->
                    [df.rows[i] EXCEPT !.cells =
                        [c \in (DOMAIN df.rows[i].cells) \cup {"dia"} |->
                            IF c = "dia" THEN <<mapping[day_name(df.rows[i].fecha)]>>
                            ELSE IF c = "trip_minutes" THEN NaN
                            ELSE df.rows[i].cells[c]]]]]

\* data['dia'] = ...: data is self._data itself, so the instance's table gets
\* (or overwrites) a column 'dia'
with_dia(df) ==
    [columns |-> IF "dia" \in Range(df.columns) THEN df.columns
                 ELSE Append(df.columns, "dia"),
     rows    |-> [i \in 1..Len(df.rows) |->
                    [df.rows[i] EXCEPT !.cells =
                        [c \in (DOMAIN df.rows[i].cells) \cup {"dia"} |->
                            IF c = "dia" THEN <<mapping[day_name(df.rows[i].fecha)]>>
                            ELSE df.rows[i].cells[c]]]]]

dia(row) == row.cells["dia"]

\* groupby(data['dia'])['trip_minutes'].sum() / 60  on the table with 'dia'
weekday_time(df) ==
    [k \in GroupKeys(with_dia(df), dia) |->
        Hours(SumMinutes(with_dia(df), GroupRows(with_dia(df), dia, k)))]

----------------------------------------------------------------------------
(* What the outside world can answer: HTTP statuses, index pages, archives *)

Statuses == {200, 404, 500}

Months == {0, 1, 3, 10, 11, 13}

Years == {20, 21, 22, 23, 24}

Args == Months \X Years

\* the requests of get_csv: served, not listed, out of range
CsvArgs == {<<11, 22>>, <<10, 21>>, <<3, 22>>, <<12, 22>>, <<1, 24>>, <<13, 23>>}

\* one download anchor of the index page
Anchor(prefix, mid, yy, mm, name, suffix) ==
    prefix \o mid \o PatTrips \o yy \o <<"_">> \o mm \o <<"_">> \o name \o suffix

November == month_name_mapping[11]

October == month_name_mapping[10]

AnchorNov22 == Anchor(PatGetattachment, <<"a","b","-","1","/">>, <<"2","2">>, <<"1","1">>,
                      November, PatCsvAspx)

AnchorMar22 == Anchor(PatGetattachment, <<>>, <<"2","2">>, <<"0","3">>,
                      <<"m","a","r","c","h">>, PatCsvAspx)

AnchorOct21 == Anchor(PatGetattachment, <<"c","2","/">>, <<"2","1">>, <<"1","0">>,
                      October, PatCsvAspx)

Anchors ==
    { AnchorNov22, AnchorMar22,
      \* a folder name that looks like a year_month token
      Anchor(PatGetattachment, <<"2","2","_","1","1","/">>, <<"2","1">>, <<"1","0">>,
             October, PatCsvAspx),
      \* another file type: no match by itself
      Anchor(PatGetattachment, <<"d","3","/">>, <<"2","2">>, <<"1","1">>,
             November, <<".","z","i","p">>),
      \* a year and a month the catalog does not serve
      Anchor(PatGetattachment, <<"e","4","/">>, <<"2","4">>, <<"0","1">>,
             month_name_mapping[1], PatCsvAspx),
      Anchor(PatGetattachment, <<"f","5","/">>, <<"2","3">>, <<"1","3">>,
             <<"x">>, PatCsvAspx) }

Separators == {<<" ">>, <<"\n">>}

RECURSIVE PagesOfLen(_)
PagesOfLen(n) ==
    IF n = 0 THEN {<<>>}
    ELSE {a \o sep \o p : a \in Anchors, sep \in Separators, p \in PagesOfLen(n - 1)}

Pages == UNION {PagesOfLen(n) : n \in 0..MaxAnchors}

\* the index page of the tests (test/data/emt.html): three download links
FixturePages ==
    {AnchorNov22 \o <<"\n">> \o AnchorMar22 \o <<"\n">> \o AnchorOct21 \o <<"\n">>}

FixtureArgs == {<<11, 22>>, <<4, 23>>, <<13, 22>>}

\* file rows
Row(key, cells) == [fecha |-> key, cells |-> cells]

T0 == Stamp(738460, 0)

BaseCells ==
    [c \in RawColumns |->
        CASE c = "idBike" -> <<"7">>
          [] c = "fleet" -> <<"1">>
          [] c = "trip_minutes" -> <<5>>
          [] c \in {"unlock_date", "lock_date"} -> T0
          [] c = "station_unlock" -> <<"1">>
          [] c = "station_lock" -> <<"2">>
          [] c \in {"dock_unlock", "dock_lock"} -> <<"3">>
          [] OTHER -> StrVal(<<"x">>)]

NaNCells == [c \in RawColumns |-> NaN]

TablesOf(rows, n) == UNION {[1..k -> rows] : k \in 0..n}

With(cells, c, v) == [cells EXCEPT ![c] = v]

FixtureTables == {<<Row(T0, BaseCells)>>, <<Row(T0, BaseCells), Row(NaN, NaNCells)>>}

\* the texts an identifier field is given
IdTexts ==
    << <<"7">>, <<"7",".","0">>, <<"1",".","0","5">>, <<"1",".",".","0","0">>,
       <<".","0">>, <<>>, <<"N","A">> >>

\* a full row whose identifier fields all hold IdTexts[k]; trip_minutes tells
\* the rows apart
IdRow(k) ==
    Row(T0, [c \in RawColumns |->
                IF c \in IdLike THEN IdTexts[k]
                ELSE IF c = "trip_minutes" THEN <<k>>
                ELSE BaseCells[c]])

\* rows with (nearly) all fields empty
SparseRows ==
    { Row(NaN, NaNCells),
      Row(T0, NaNCells),
      Row(T0, With(NaNCells, "dock_unlock", <<"3">>)),
      Row(T0, With(NaNCells, "lock_station_name", StrVal(<<"x">>))),
      Row(T0, With(NaNCells, "idBike", <<"7">>)) }

CleanTables == TablesOf({IdRow(k) : k \in 1..Len(IdTexts)} \cup SparseRows, MaxRows)

\* a trip from station s, which the file places at address a
StationRow(s, a) ==
    Row(T0, With(With(BaseCells, "station_unlock", s), "address_unlock", StrVal(a)))

\* stations 1 and 3 share an address; station 3 has two
StationRows ==
    { StationRow(<<"1">>, <<"A">>), StationRow(<<"2">>, <<"B">>),
      StationRow(<<"3">>, <<"A">>), StationRow(<<"3">>, <<"C">>) }

\* the tallies of the test file (stations 1 and 3 twice, 2 and 4 once), and
\* two stations tied above a third that shares an address with one of them
SampleStationTables ==
    { << StationRow(<<"2">>, <<"B">>), StationRow(<<"1">>, <<"A">>),
         StationRow(<<"1">>, <<"A">>), StationRow(<<"3">>, <<"C">>),
         StationRow(<<"4">>, <<"D">>), StationRow(<<"3">>, <<"C">>) >>,
      << StationRow(<<"1">>, <<"A">>), StationRow(<<"2">>, <<"B">>),
         StationRow(<<"3">>, <<"A">>), StationRow(<<"2">>, <<"B">>),
         StationRow(<<"1">>, <<"A">>) >>,
      << StationRow(<<"3">>, <<"C">>), StationRow(<<"2">>, <<"B">>),
         StationRow(<<"3">>, <<"A">>), StationRow(<<"2">>, <<"B">>),
         StationRow(<<"1">>, <<"A">>) >> }

StationTables == TablesOf(StationRows, MaxTrips) \cup SampleStationTables

\* a trip keyed key, lasting minutes, from station s
DayRow(key, minutes, s) ==
    Row(key, With(With(BaseCells, "trip_minutes", minutes), "station_unlock", s))

Morning == 28800

\* trips of 1 and 2 November 2022 (the two days of the test file), one of
\* them keyed with a time of day, one without a key, one without a duration
DayRows ==
    { DayRow(T0, <<5>>, <<"1">>),
      DayRow(Stamp(T0[1].day, Morning), <<7>>, <<"1">>),
      DayRow(Stamp(T0[1].day + 1, 0), <<3>>, <<"2">>),
      DayRow(NaN, <<2>>, <<"1">>),
      DayRow(Stamp(T0[1].day + 1, 0), NaN, <<"2">>) }

\* the days of the test file (several trips on 1 November, one on
\* 2 November), and a file with times of day and a trip without a key
SampleDayTables ==
    { << DayRow(T0, <<5>>, <<"1">>), DayRow(T0, <<7>>, <<"1">>),
         DayRow(T0, <<5>>, <<"2">>), DayRow(Stamp(T0[1].day + 1, 0), <<3>>, <<"2">>) >>,
      << DayRow(T0, <<5>>, <<"1">>), DayRow(Stamp(T0[1].day, Morning), <<7>>, <<"1">>),
         DayRow(NaN, <<2>>, <<"1">>), DayRow(Stamp(T0[1].day + 1, 0), <<3>>, <<"2">>) >> }

DayTables == TablesOf(DayRows, MaxRows) \cup SampleDayTables

NoArchive == [zip |-> FALSE, name |-> <<>>, csv |-> <<>>]

\* the bodies that can come with a status: with 200 bytes that are no
\* archive, an archive of another month (with an empty file) or an archive of
\* November 2022; with another status an error page
Bodies(status, tables) ==
    IF status # 200 THEN {NoArchive}
    ELSE {NoArchive, [zip |-> TRUE, name |-> get_name_csv(3, 22), csv |-> <<>>]}
         \cup {[zip |-> TRUE, name |-> get_name_csv(11, 22), csv |-> t] : t \in tables}

\* the index pages that can come with a status
PagesFor(status, pages) == IF status # 200 THEN {<<>>} ELSE pages

----------------------------------------------------------------------------
(* The calls *)

Outcome(op, month, year, kind, value, msg) ==
    [op |-> op, month |-> month, year |-> year, kind |-> kind, value |-> value, msg |-> msg]

Init ==
    /\ catalog = <<>>
    /\ bici = <<>>
    /\ last = Outcome("none", 0, 0, "none", <<>>, <<>>)
    /\ trace = <<>>
    /\ parsed = <<>>
    /\ born = <<>>

\* UrlEMT()
UrlEMT_init(pages) ==
    /\ catalog = <<>> /\ bici = <<>>
    /\ \E status \in Statuses : \E html \in PagesFor(status, pages) :
        LET r == select_valid_urls(status, html)
        IN  /\ catalog' = IF r.kind = "return"
                          THEN <<[enlaces_validos |-> r.links]>> ELSE <<>>
            /\ last' = Outcome("UrlEMT", 0, 0, r.kind, <<>>, r.msg)
            /\ trace' = r.trace
    /\ UNCHANGED <<bici, parsed, born>>

\* catalog.get_url(month, year)
UrlEMT_get_url(args) ==
    /\ catalog # <<>>
    /\ \E a \in args :
        \E r \in get_url(catalog[1].enlaces_validos, a[1], a[2]) :
            /\ last' = Outcome("get_url", a[1], a[2], r.kind, r.value, r.msg)
            /\ trace' = <<>>
    /\ UNCHANGED <<catalog, bici, parsed, born>>

\* catalog.get_csv(month, year)
UrlEMT_get_csv(args, tables) ==
    /\ catalog # <<>>
    /\ \E a \in args :
        \E u \in get_url(catalog[1].enlaces_validos, a[1], a[2]) :
        \E status \in Statuses : \E body \in Bodies(status, tables) :
            LET r == get_csv(u, a[1], a[2], status, body)
            IN  /\ last' = Outcome("get_csv", a[1], a[2], r.kind, r.value, r.msg)
                /\ trace' = r.trace
    /\ UNCHANGED <<catalog, bici, parsed, born>>

\* BiciMad(month, year): get_data builds its own UrlEMT, fetches the CSV and
\* parses it; then clean.  An exception leaves no instance.
BiciMad_init(args, pages, tables) ==
    /\ catalog = <<>> /\ bici = <<>>
    /\ \E a \in args : \E status1 \in Statuses : \E html \in PagesFor(status1, pages) :
        LET sel == select_valid_urls(status1, html)
        IN  IF sel.kind # "return"
            THEN /\ last' = Outcome("BiciMad", a[1], a[2], sel.kind, <<>>, sel.msg)
                 /\ trace' = sel.trace
                 /\ UNCHANGED <<bici, parsed, born>>
            ELSE \E u \in get_url(sel.links, a[1], a[2]) :
                 \E status2 \in Statuses : \E body \in Bodies(status2, tables) :
                    LET r  == get_csv(u, a[1], a[2], status2, body)
                        df == csv_to_df(r.value)
                        cl == clean(df)
                    IN  /\ trace' = sel.trace \o r.trace
                        /\ IF r.kind # "return"
                           THEN /\ last' = Outcome("BiciMad", a[1], a[2], r.kind, <<>>, r.msg)
                                /\ UNCHANGED <<bici, parsed, born>>
                           ELSE \E raised \in clean_raises(df) :
                                IF raised
                                THEN /\ last' = Outcome("BiciMad", a[1], a[2],
                                                        "AttributeError", <<>>, <<>>)
                                     /\ UNCHANGED <<bici, parsed, born>>
                                ELSE /\ last' = Outcome("BiciMad", a[1], a[2],
                                                        "return", <<>>, <<>>)
                                     /\ parsed' = df
                                     /\ born' = cl
                                     /\ bici' = <<[month |-> a[1], year |-> a[2],
                                                   data |-> cl]>>
    /\ UNCHANGED catalog

\* a method of the instance that only reads the table
Reads(op, value) ==
    /\ bici # <<>>
    /\ last' = Outcome(op, bici[1].month, bici[1].year, "return", value, <<>>)
    /\ trace' = <<>>
    /\ UNCHANGED <<catalog, bici, parsed, born>>

BiciMad_data == Reads("data", bici[1].data)

BiciMad_resume == Reads("resume", resume(bici[1].month, bici[1].year, bici[1].data))

BiciMad_get_most_popular_stations ==
    Reads("get_most_popular_stations", get_most_popular_stations(bici[1].data))

BiciMad_get_uses_from_most_populars ==
    Reads("get_uses_from_most_populars", get_uses_from_most_populars(bici[1].data))

BiciMad_day_time == Reads("day_time", day_time(bici[1].data))

BiciMad_total_usage_day == Reads("total_usage_day", total_usage_day(bici[1].data))

BiciMad_total_usage_day_station_unlock ==
    Reads("total_usage_day_station_unlock", total_usage_day_station_unlock(bici[1].data))

\* instance.weekday_time(): writes the column 'dia' into the instance's table
BiciMad_weekday_time ==
    /\ bici # <<>>
    /\ trace' = <<>>
    /\ IF weekday_raises(bici[1].data)
       THEN /\ last' = Outcome("weekday_time", bici[1].month, bici[1].year,
                               "KeyError", <<>>, <<>>)
            /\ bici' = bici
       ELSE /\ last' = Outcome("weekday_time", bici[1].month, bici[1].year,
                               "return", weekday_time(bici[1].data), <<>>)
            /\ bici' = <<[bici[1] EXCEPT !.data = with_dia(bici[1].data)]>>
    /\ UNCHANGED <<catalog, parsed, born>>

\* the calls the client can make, the answers drawn from the given sets
Step(pages, args, csvargs, tables) ==
    \/ UrlEMT_init(pages)
    \/ UrlEMT_get_url(args)
    \/ UrlEMT_get_csv(csvargs, FixtureTables)
    \/ BiciMad_init(FixtureArgs, FixturePages, tables)
    \/ BiciMad_data
    \/ BiciMad_resume
    \/ BiciMad_get_most_popular_stations
    \/ BiciMad_get_uses_from_most_populars
    \/ BiciMad_day_time
    \/ BiciMad_weekday_time
    \/ BiciMad_total_usage_day
    \/ BiciMad_total_usage_day_station_unlock

\* the catalog over every index page
Next == Step(Pages, Args, CsvArgs, FixtureTables)

Spec == Init /\ [][Next]_vars

\* the dataset over files whose fields are varied
NextClean == Step(FixturePages, FixtureArgs, FixtureArgs, CleanTables)

SpecClean == Init /\ [][NextClean]_vars

\* the dataset over files whose stations are varied
NextStations == Step(FixturePages, FixtureArgs, FixtureArgs, StationTables)

SpecStations == Init /\ [][NextStations]_vars

\* the dataset over files whose days are varied
NextDays == Step(FixturePages, FixtureArgs, FixtureArgs, DayTables)

SpecDays == Init /\ [][NextDays]_vars

----------------------------------------------------------------------------
(* Claims about UrlEMT *)

Links == catalog[1].enlaces_validos

\* "<year>_<month zero-padded to 2 digits>" written out
Token(month, year) ==
    Str(year) \o <<"_", Digits[(month \div 10) + 1], Digits[(month % 10) + 1]>>

InRange(month, year) == month \in 1..12 /\ year \in {21, 22, 23}

\* C1: get_url raises ValueError, and returns no URL, for every month outside
\* 1..12 and every year outside {21, 22, 23}, whatever the stored links are.
C1_InvalidInputRaises ==
    (last.op = "get_url" /\ ~InRange(last.month, last.year))
        => (last.kind = "ValueError" /\ last.value = <<>>)

\* get_url(1, 24) has raised although a stored URL contains "24_01"
C1_Witness ==
    /\ last.op = "get_url" /\ last.month = 1 /\ last.year = 24
    /\ \E url \in Links : Contains(url, <<"2","4","_","0","1">>)
    /\ last.kind = "ValueError"

\* C2: for a valid month and year get_url returns a URL iff some stored URL
\* contains "<year>_<month:02>"; what it returns is a stored URL that contains
\* it; otherwise it raises ValueError with a message naming month and year.
C2_ReturnsIffStored ==
    (last.op = "get_url" /\ InRange(last.month, last.year)) =>
        LET hits == {url \in Links : Contains(url, Token(last.month, last.year))}
        IN  /\ (last.kind = "return") <=> (hits # {})
            /\ last.kind = "return" => last.value \in hits
            /\ hits = {} => /\ last.kind = "ValueError"
                            /\ Len(last.msg) = 4
                            /\ last.msg[2] = Str(last.month)
                            /\ last.msg[4] = Str(last.year)

\* get_url(3, 22) has returned a URL from a catalog of several links
C2_Witness ==
    /\ last.op = "get_url" /\ last.month = 3 /\ last.year = 22
    /\ last.kind = "return"
    /\ Cardinality(Links) >= 2

\* the <yy> and <mm> of the file name trips_<yy>_<mm>_<letters>-csv.aspx a
\* link ends with
FileToken(url) ==
    LET j == CHOOSE j \in 1..Len(url) : TailEnd(url, j) = Len(url) + 1
    IN  [yy |-> SubSeq(url, j + 6, j + 7), mm |-> SubSeq(url, j + 9, j + 10)]

\* C3: a URL returned by get_url(month, year) is the link of the archive of
\* that month and year: its file name trips_<yy>_<mm>_... has yy = year and
\* mm = month, for every set of links get_links can produce.
C3_ReturnsRequestedArchive ==
    (last.op = "get_url" /\ last.kind = "return") =>
        /\ FileToken(last.value).yy = Str(last.year)
        /\ FileToken(last.value).mm = SubSeq(Token(last.month, last.year), 4, 5)

\* C4: a GET answered with a status other than 200 is the last thing its call
\* does (no other request, no link extraction, no ZIP access), and the call
\* raises ConnectionError with the requested URL and the status in its message.
C4_Non200Raises ==
    \A i \in 1..Len(trace) :
        (trace[i].ev = "GET" /\ trace[i].status # 200) =>
            /\ i = Len(trace)
            /\ last.kind = "ConnectionError"
            /\ Len(last.msg) = 4
            /\ last.msg[2] = trace[i].url
            /\ last.msg[4] = Str(trace[i].status)

\* get_csv got a 500 for the dataset of a served month
C4_Witness ==
    /\ last.op = "get_csv" /\ last.kind = "ConnectionError"
    /\ Len(trace) = 1 /\ trace[1].status = 500
    /\ trace[1].url \in Links

\* C5 as stated: every construction, of a UrlEMT and of a BiciMad, issues
\* exactly one HTTP GET.
C5_OneFetchPerConstruction ==
    last.op \in {"UrlEMT", "BiciMad"} => Len(Gets(trace)) = 1

\* C5 amended: UrlEMT() issues exactly one GET, of the index page.
\* BiciMad(month, year) issues the index GET of the UrlEMT it builds and,
\* when that is answered 200 and get_url resolves the month and year, one
\* GET of the dataset: two GETs whenever an instance results.
C5_FetchesPerConstruction ==
    /\ last.op = "UrlEMT" =>
        /\ Len(Gets(trace)) = 1
        /\ Gets(trace)[1].url = EMT \o Tail(GENERAL)
    /\ last.op = "BiciMad" =>
        /\ Len(Gets(trace)) \in {1, 2}
        /\ Gets(trace)[1].url = EMT \o Tail(GENERAL)
        /\ last.kind = "return" => Len(Gets(trace)) = 2
        /\ Len(Gets(trace)) = 1 <=>
                (Gets(trace)[1].status # 200 \/ last.kind = "ValueError")

\* a BiciMad instance has been built with two GETs
C5_Witness ==
    /\ last.op = "BiciMad" /\ last.kind = "return" /\ bici # <<>>
    /\ Len(Gets(trace)) = 2

----------------------------------------------------------------------------
(* Claims about BiciMad *)

Ids == {"fleet", "idBike", "station_lock", "station_unlock"}

DotZero == <<".", "0">>

\* the rows of the parsed file with a value in one of the 15 columns
Kept == SelectSeq(parsed.rows, LAMBDA r : \E c \in Range(Columns15) : Len(r.cells[c]) > 0)

\* C6: the table of a BiciMad instance stays as it was when the constructor
\* returned (same rows, same 15 columns, same values), whatever methods are
\* called.
C6_ReadOnlyAfterConstruction ==
    bici # <<>> => (bici[1].data = born /\ bici[1].data.columns = Columns15)

C8_NoTrailingDotZero ==
    bici # <<>> =>
        \A i \in 1..Len(born.rows) : \A c \in Ids :
            ~EndsWith(born.rows[i].cells[c][1].text, DotZero)

\* C9: cleaning takes the string form of an identifier value and removes a
\* trailing ".0", nothing else: a form that does not end in ".0" stays as it
\* is, one that does loses its last two characters.
C9_OnlyTrailingDotZeroRemoved ==
    (bici # <<>> /\ Len(born.rows) = Len(Kept)) =>
        \A i \in 1..Len(born.rows) : \A c \in Ids :
            LET form == PyStr(Kept[i].cells[c])
            IN  born.rows[i].cells[c][1].text =
                    IF EndsWith(form, DotZero)
                    THEN SubSeq(form, 1, Len(form) - 2) ELSE form

\* the rows of the instance's table
TripRows == bici[1].data.rows

\* the number of rows of the station of row i
Tally(i) ==
    Cardinality({j \in 1..Len(TripRows) :
        TripRows[j].cells["station_unlock"] = TripRows[i].cells["station_unlock"]})

\* the rows of a station no other station has more rows than
AtMaximum == {i \in 1..Len(TripRows) : \A j \in 1..Len(TripRows) : Tally(j) <= Tally(i)}

\* C10: get_most_popular_stations returns exactly the unlock addresses of
\* the rows of the stations with the most rows, the tied ones all included.
C10_AddressesOfTopStations ==
    last.op = "get_most_popular_stations" =>
        last.value = {TripRows[i].cells["address_unlock"] : i \in AtMaximum}

\* two stations are tied at the maximum, and an address of a station below
\* it is not returned
C10_Witness ==
    /\ last.op = "get_most_popular_stations"
    /\ \E i, j \in AtMaximum :
            TripRows[i].cells["station_unlock"] # TripRows[j].cells["station_unlock"]
    /\ \E k \in 1..Len(TripRows) : TripRows[k].cells["address_unlock"] \notin last.value


\* C11: get_uses_from_most_populars returns the number of rows whose
\* station_unlock is one of the stations tied at the maximum row count.
C11_UsesAreRowsOfTopStations ==
    (last.op = "get_uses_from_most_populars" /\ last.kind = "return") =>
        last.value = Cardinality(AtMaximum)


\* the calendar days of the rows that have a key
Days == {TripRows[i].fecha[1].day : i \in {j \in 1..Len(TripRows) : ~IsNaN(TripRows[j].fecha)}}

\* the rows of calendar day d
RowsOfDay(d) ==
    {i \in 1..Len(TripRows) : ~IsNaN(TripRows[i].fecha) /\ TripRows[i].fecha[1].day = d}

\* C12: day_time returns one entry per calendar day of the table, the value
\* of a day being the sum of trip_minutes of all rows of that day divided by
\* 60, and its days are the days of total_usage_day.
C12_OneEntryPerCalendarDay ==
    (last.op = "day_time" /\ last.kind = "return") =>
        /\ Cardinality(DOMAIN last.value) = Cardinality(Days)
        /\ \A k \in DOMAIN last.value :
                last.value[k] = Hours(SumMinutes(bici[1].data, RowsOfDay(k[1].day)))
        /\ {k[1].day : k \in DOMAIN last.value}
                = {k[1] : k \in DOMAIN total_usage_day(bici[1].data)}


RECURSIVE Total(_, _)
\* the sum of the values of f over the keys K
Total(f, K) ==
    IF K = {} THEN 0
    ELSE LET k == CHOOSE x \in K : TRUE IN f[k] + Total(f, K \ {k})

\* the sum of the entries of a series of hours (minutes / 60)
TotalHours(f) == Hours(Total([k \in DOMAIN f |-> f[k].num], DOMAIN f))

\* the rows that have a key
Keyed == {i \in 1..Len(TripRows) : ~IsNaN(TripRows[i].fecha)}

\* C13 as stated: the counts of total_usage_day add up to the row count of
\* the table (total_uses of resume) and the values of day_time add up to the
\* sum of trip_minutes of all rows divided by 60 (total_time of resume).
C13_PerDayTotalsConserved ==
    LET r == resume(bici[1].month, bici[1].year, bici[1].data)
    IN  /\ (last.op = "total_usage_day" /\ last.kind = "return") =>
                Total(last.value, DOMAIN last.value) = r.total_uses
        /\ (last.op = "day_time" /\ last.kind = "return") =>
                TotalHours(last.value) = r.total_time

\* C13: the counts of total_usage_day add up to the number of rows that have
\* a key (fecha) and the values of day_time add up to the sum of
\* trip_minutes of those rows divided by 60; rows without a key are in the
\* totals of resume and in no day.
C13_PerDayTotalsOfKeyedRows ==
    /\ (last.op = "total_usage_day" /\ last.kind = "return") =>
            /\ Total(last.value, DOMAIN last.value) = Cardinality(Keyed)
            /\ Cardinality(Keyed) <= Len(TripRows)
    /\ (last.op = "day_time" /\ last.kind = "return") =>
            TotalHours(last.value) = Hours(SumMinutes(bici[1].data, Keyed))

\* total_usage_day has answered on a table with two rows of the same day
\* and a row without a key
C13_Witness ==
    /\ last.op = "total_usage_day" /\ last.kind = "return"
    /\ \E i, j \in Keyed : i # j /\ TripRows[i].fecha[1].day = TripRows[j].fecha[1].day
    /\ Cardinality(Keyed) < Len(TripRows)


\* the URLs get_url can return for (month, year) on the stored links
Resolved(month, year) ==
    {r.value : r \in {x \in get_url(Links, month, year) : x.kind = "return"}}

\* C14: get_csv resolves the URL before it touches the network: when get_url
\* raises, get_csv raises the same without any GET; otherwise its one GET is
\* the first thing it does and requests the URL get_url returns for the same
\* (month, year), and the ZIP entry opened after it is get_name_csv(month, year).
C14_ResolvesBeforeFetching ==
    last.op = "get_csv" =>
        /\ Resolved(last.month, last.year) = {} =>
                (last.kind = "ValueError" /\ trace = <<>>)
        /\ Resolved(last.month, last.year) # {} =>
                /\ Len(trace) >= 1 /\ trace[1].ev = "GET"
                /\ trace[1].url \in Resolved(last.month, last.year)
        /\ \A i \in 1..Len(trace) :
                /\ trace[i].ev = "GET" => i = 1
                /\ trace[i].ev = "open" =>
                        i > 1 /\ trace[i].name = get_name_csv(last.month, last.year)

\* get_csv has fetched the one of several stored links that get_url
\* returns and has returned the entry it opened
C14_Witness ==
    /\ last.op = "get_csv" /\ last.kind = "return"
    /\ Cardinality(Links) >= 2
    /\ Len(trace) = 3 /\ trace[1].url \in Links /\ trace[3].ev = "open"


\* the result of aggregation method op on table df of the instance
Result(op, df) ==
    CASE op = "resume" -> resume(bici[1].month, bici[1].year, df)
      [] op = "get_most_popular_stations" -> get_most_popular_stations(df)
      [] op = "get_uses_from_most_populars" -> get_uses_from_most_populars(df)
      [] op = "day_time" -> day_time(df)
      [] op = "weekday_time" -> weekday_time(df)
      [] op = "total_usage_day" -> total_usage_day(df)
      [] op = "total_usage_day_station_unlock" -> total_usage_day_station_unlock(df)

Aggregations ==
    {"resume", "get_most_popular_stations", "get_uses_from_most_populars", "day_time",
     "weekday_time", "total_usage_day", "total_usage_day_station_unlock"}

\* C15: whatever aggregation methods were called before and how often, each
\* aggregation method answers as it does right after construction: the
\* result it has just returned, and the result (or KeyError of weekday_time)
\* it would give now, are those on the table construction left.
C15_ResultsIndependentOfHistory ==
    bici # <<>> =>
        /\ (last.op \in Aggregations /\ last.kind = "return") =>
                last.value = Result(last.op, born)
        /\ (last.op = "weekday_time") =>
                (last.kind = "KeyError") = weekday_raises(born)
        /\ weekday_raises(bici[1].data) = weekday_raises(born)
        /\ \A op \in Aggregations :
                (op = "weekday_time" /\ weekday_raises(born))
                    \/ Result(op, bici[1].data) = Result(op, born)

\* resume has answered after weekday_time wrote its column into the table,
\* whose trips are of two days
C15_Witness ==
    /\ bici # <<>> /\ last.op = "resume"
    /\ "dia" \in Range(bici[1].data.columns)
    /\ bici[1].data # born
    /\ Cardinality(Days) >= 2

=============================================================================
